---- MODULE Spec2Model ----
(***************************************************************************)
(* A model of src/src/peft/utils/merge_utils.py: the pruning, sign         *)
(* consensus, disjoint merge and variance/energy primitives and the six    *)
(* merge strategies built from them.                                       *)
(*                                                                         *)
(* A tensor is a record [shape, data]: shape is the sequence of its        *)
(* dimensions and data its elements in row-major order.  Elements are      *)
(* exact rationals [n, d] in lowest terms with d > 0 (the floating point   *)
(* rounding of the library is not modelled; every operation is computed    *)
(* exactly).  A boolean tensor holds TRUE/FALSE.                           *)
(*                                                                         *)
(* The functions are pure, so the state machine is one call: from the idle *)
(* state an action picks the arguments of one function (and the outcome of *)
(* its random or unspecified choices: the Bernoulli mask, the indices      *)
(* torch.topk returns among equal values), runs it, and records the call   *)
(* and what it returned or raised.                                         *)
(***************************************************************************)
EXTENDS Integers, Sequences, FiniteSets, TLC

VARIABLES op, args, out, aux

vars == <<op, args, out, aux>>

(***************************************************************************)
(* Bounds of the model.                                                    *)
(***************************************************************************)
\* the largest magnitude of an element of an input tensor (Vals, TaskVals)
MaxVal == 2
\* a single tensor has at most MaxElems elements; a stack of task tensors
\* has at most MaxElems elements in all (tasks x positions)
MaxElems == 4
\* a strategy merges at most MaxTasks task tensors
MaxTasks == 2

(***************************************************************************)
(* Exact arithmetic on the elements.                                       *)
(***************************************************************************)
Abs(x) == IF x < 0 THEN -x ELSE x

Max(a, b) == IF a >= b THEN a ELSE b

RECURSIVE GCD(_, _)
GCD(a, b) == IF b = 0 THEN a ELSE GCD(b, a % b)

Rat(n, d) ==
    LET s == IF d < 0 THEN -1 ELSE 1
        g == GCD(Abs(n), Abs(d))
    IN  [n |-> (s * n) \div g, d |-> (s * d) \div g]

R(i) == [n |-> i, d |-> 1]

RAdd(x, y) == Rat(x.n * y.d + y.n * x.d, x.d * y.d)

RSub(x, y) == Rat(x.n * y.d - y.n * x.d, x.d * y.d)

RMul(x, y) == Rat(x.n * y.n, x.d * y.d)

\* y is not zero
RDiv(x, y) == Rat(x.n * y.d, x.d * y.n)

RLt(x, y) == x.n * y.d < y.n * x.d

RLe(x, y) == x.n * y.d <= y.n * x.d

RAbs(x) == [n |-> Abs(x.n), d |-> x.d]

RMax(x, y) == IF RLe(y, x) THEN x ELSE y

\* Python's int(): truncation toward zero
RInt(x) == IF x.n >= 0 THEN x.n \div x.d ELSE -((-x.n) \div x.d)

B2R(b) == IF b THEN R(1) ELSE R(0)

(***************************************************************************)
(* Tensors.                                                                *)
(***************************************************************************)
Tensor(shape, data) == [shape |-> shape, data |-> data]

RECURSIVE Numel(_)
Numel(shape) == IF shape = <<>> THEN 1 ELSE Head(shape) * Numel(Tail(shape))

numel(t) == Len(t.data)

dim(t) == Len(t.shape)

RECURSIVE SumTo(_, _)
SumTo(f, n) == IF n = 0 THEN 0 ELSE f[n] + SumTo(f, n - 1)

RECURSIVE RSumTo(_, _)
RSumTo(f, n) == IF n = 0 THEN R(0) ELSE RAdd(f[n], RSumTo(f, n - 1))

\* the shape s seen as a shape of rank r >= Len(s): ones are added in front
PadShape(s, r) ==
    [i \in 1..r |-> IF i <= r - Len(s) THEN 1 ELSE s[i - (r - Len(s))]]

Stride(shape, i) == Numel(SubSeq(shape, i + 1, Len(shape)))

BroadcastShape(a, b) ==
    LET r == Max(Len(a), Len(b))
    IN  [i \in 1..r |-> Max(PadShape(a, r)[i], PadShape(b, r)[i])]

\* the elementwise binary operations: *, / (y is not zero) and ==
Apply(f, x, y) ==
    CASE f = "mul" -> RMul(x, y)
      [] f = "div" -> RDiv(x, y)
      [] f = "eq"  -> x = y

\* an elementwise binary operation with broadcasting: element q of the
\* result reads, in each operand, the element at q's coordinates, with
\* coordinate 0 along every dimension the operand has of size 1
Broadcast(A, B, f) ==
    IF A.shape = B.shape
    THEN Tensor(A.shape, [q \in 1..numel(A) |-> Apply(f, A.data[q], B.data[q])])
    ELSE
    LET osh == BroadcastShape(A.shape, B.shape)
        r   == Len(osh)
        so  == [i \in 1..r |-> Stride(osh, i)]
        pa  == PadShape(A.shape, r)
        pb  == PadShape(B.shape, r)
        ca  == [i \in 1..r |-> IF pa[i] = 1 THEN 0 ELSE Stride(pa, i)]
        cb  == [i \in 1..r |-> IF pb[i] = 1 THEN 0 ELSE Stride(pb, i)]
        Src(p, c) == SumTo([i \in 1..r |-> ((p \div so[i]) % osh[i]) * c[i]], r) + 1
    IN  Tensor(osh, [q \in 1..Numel(osh) |->
                       Apply(f, A.data[Src(q - 1, ca)], B.data[Src(q - 1, cb)])])

\* a boolean tensor as numbers: multiplying by a boolean mask, or summing
\* it, reads TRUE as 1 and FALSE as 0
to_num(M) == Tensor(M.shape, [q \in 1..numel(M) |-> B2R(M.data[q])])

\* tensor * tensor
mul(A, B) == Broadcast(A, B, "mul")

\* tensor / tensor
div(A, B) == Broadcast(A, B, "div")

\* tensor == tensor
eq(A, B) == Broadcast(A, B, "eq")

\* a number as a tensor of no dimensions
Scalar(x) == Tensor(<<>>, <<x>>)

\* tensor.abs()
abs(A) == Tensor(A.shape, [q \in 1..numel(A) |-> RAbs(A.data[q])])

\* torch.clamp(tensor, min=lo)
clamp_min(A, lo) == Tensor(A.shape, [q \in 1..numel(A) |-> RMax(A.data[q], lo)])

\* tensor.sum(dim=0)
sum_dim0(A) ==
    LET n     == A.shape[1]
        inner == Numel(Tail(A.shape))
    IN  Tensor(Tail(A.shape),
               [j \in 1..inner |->
                  RSumTo([i \in 1..n |-> A.data[(i - 1) * inner + j]], n)])

\* torch.stack(tensors, dim=0) of tensors of one shape
stack(ts) ==
    LET n     == Len(ts)
        inner == numel(ts[1])
    IN  Tensor(<<n>> \o ts[1].shape,
               [q \in 1..(n * inner) |->
                  ts[((q - 1) \div inner) + 1].data[((q - 1) % inner) + 1]])

unsqueeze0(A) == Tensor(<<1>> \o A.shape, A.data)

unsqueeze_last(A) == Tensor(A.shape \o <<1>>, A.data)

zeros_like(A) == Tensor(A.shape, [q \in 1..numel(A) |-> R(0)])

ones_like(A) == Tensor(A.shape, [q \in 1..numel(A) |-> R(1)])

\* The index sets torch.topk(values, k, largest=True) can return: k indices
\* whose values are >= every value left out.  Which of several equal values
\* it takes is not specified.
topk(values, k) ==
    {I \in SUBSET (1..Len(values)) :
        /\ Cardinality(I) = k
        /\ \A i \in I : \A j \in (1..Len(values)) \ I : RLe(values[j], values[i])}

(***************************************************************************)
(* What a call returns: a tensor, or the exception it raised.              *)
(***************************************************************************)
NoTensor == [shape |-> <<0>>, data |-> <<>>]

Ok(t) == [kind |-> "ok", value |-> t, warned |-> FALSE]

Warned(t) == [kind |-> "ok", value |-> t, warned |-> TRUE]

Raise(e) == [kind |-> e, value |-> NoTensor, warned |-> FALSE]

(***************************************************************************)
(* The functions of merge_utils.py.                                        *)
(***************************************************************************)
Ones(n) == [i \in 1..n |-> 1]

\* (1,) * n is the empty tuple when n <= 0
reshape_weight_task_tensors(task_tensors, weights) ==
    LET new_shape == weights.shape \o Ones(dim(task_tensors) - dim(weights))
    IN  Tensor(new_shape, weights.data)

\* mutant of magnitude_k: the product rounded up
magnitude_k_round_up(tensor, density) ==
    LET x == RMul(density, R(numel(tensor)))
    IN  IF x.n % x.d = 0 THEN RInt(x) ELSE RInt(x) + 1

\* k = int(density * tensor.numel())
magnitude_k(tensor, density) == RInt(RMul(density, R(numel(tensor))))

\* top_k is the index set torch.topk returned, one of
\* topk(|tensor|, magnitude_k(tensor, density))
magnitude_based_pruning(tensor, density, top_k) ==
    LET mask == Tensor(tensor.shape,
                       [q \in 1..numel(tensor) |->
                          IF q \in top_k THEN R(1) ELSE R(0)])
    IN  mul(tensor, mask)

\* mask is the draw of torch.bernoulli: 0 or 1 at every position.  The
\* quotient torch.div computes is a new tensor that no name is bound to;
\* pruned_tensor is what is returned.
random_pruning(tensor, density, rescale, mask) ==
    LET pruned_tensor == mul(tensor, mask)
        divided       == IF rescale THEN div(pruned_tensor, Scalar(density))
                         ELSE pruned_tensor
    IN  pruned_tensor

\* mutant of prune: the method name is looked at before the density
prune_method_first(tensor, density, method, rescale, rnd) ==
    IF method \notin {"magnitude", "random"} THEN Raise("ValueError")
    ELSE IF RLe(R(1), density) THEN Warned(tensor)
    ELSE IF RLt(density, R(0)) THEN Raise("ValueError")
    ELSE IF method = "magnitude"
         THEN Ok(mul(tensor, Tensor(tensor.shape,
                                    [q \in 1..Len(tensor.data) |->
                                       IF q \in rnd.top_k THEN R(1) ELSE R(0)])))
    ELSE Ok(mul(tensor, rnd.mask))

\* rnd holds the two random or unspecified choices a pruning can make:
\* rnd.top_k for magnitude pruning and rnd.mask for random pruning
prune(tensor, density, method, rescale, rnd) ==
    IF RLe(R(1), density) THEN Warned(tensor)
    ELSE IF RLt(density, R(0)) THEN Raise("ValueError")
    ELSE IF method = "magnitude"
         THEN Ok(magnitude_based_pruning(tensor, density, rnd.top_k))
    ELSE IF method = "random"
         THEN Ok(random_pruning(tensor, density, rescale, rnd.mask))
    ELSE Raise("ValueError")

RSign(x) == IF x.n > 0 THEN R(1) ELSE IF x.n < 0 THEN R(-1) ELSE R(0)

\* mutant of MajorityOf: a sum of zero elects -1
MajorityOf_strict(x) == IF x.n > 0 THEN R(1) ELSE R(-1)

\* torch.where(sign_magnitude >= 0, 1, -1)
MajorityOf(x) == IF x.n >= 0 THEN R(1) ELSE R(-1)

\* tensor.sign()
sign_of(A) == Tensor(A.shape, [q \in 1..numel(A) |-> RSign(A.data[q])])

calculate_majority_sign_mask(tensor, method) ==
    LET sign == sign_of(tensor)
    IN  IF method \notin {"total", "frequency"} THEN Raise("RuntimeError")
        ELSE LET sign_magnitude == IF method = "total" THEN sum_dim0(tensor)
                                   ELSE sum_dim0(sign)
                 majority_sign  ==
                     Tensor(sign_magnitude.shape,
                            [q \in 1..numel(sign_magnitude) |->
                               MajorityOf(sign_magnitude.data[q])])
             IN  Ok(eq(sign, majority_sign))

\* mutant of disjoint_merge: the sum is divided by the number of tasks
disjoint_merge_mean(task_tensors, majority_sign_mask) ==
    LET mixed_task_tensors == sum_dim0(mul(task_tensors, to_num(majority_sign_mask)))
    IN  div(mixed_task_tensors, Scalar(R(task_tensors.shape[1])))

disjoint_merge(task_tensors, majority_sign_mask) ==
    LET mixed_task_tensors   == sum_dim0(mul(task_tensors, to_num(majority_sign_mask)))
        num_params_preserved == sum_dim0(to_num(majority_sign_mask))
    IN  div(mixed_task_tensors, clamp_min(num_params_preserved, R(1)))

\* [prune(tensor, density, method, rescale) for tensor in task_tensors]
prune_each(task_tensors, density, method, rescale, rnds) ==
    [n \in 1..Len(task_tensors) |->
       prune(task_tensors[n], density, method, rescale, rnds[n])]

\* the exception that ends the list comprehension, "ok" when none does
FirstRaise(outs) ==
    LET bad == {n \in 1..Len(outs) : outs[n].kind # "ok"}
    IN  IF bad = {} THEN "ok"
        ELSE outs[CHOOSE n \in bad : \A m \in bad : n <= m].kind

Values(outs) == [n \in 1..Len(outs) |-> outs[n].value]

AnyWarned(outs) == \E n \in 1..Len(outs) : outs[n].warned

Result(t, warned) == [kind |-> "ok", value |-> t, warned |-> warned]

\* weights reshaped, task_tensors * weights, .sum(dim=0)
weighted_sum(stacked, weights) ==
    sum_dim0(mul(stacked, reshape_weight_task_tensors(stacked, weights)))

task_arithmetic(task_tensors, weights) ==
    Ok(weighted_sum(stack(task_tensors), weights))

magnitude_prune(task_tensors, weights, density, rnds) ==
    LET pruned == prune_each(task_tensors, density, "magnitude", FALSE, rnds)
    IN  IF FirstRaise(pruned) # "ok" THEN Raise(FirstRaise(pruned))
        ELSE Result(weighted_sum(stack(Values(pruned)), weights), AnyWarned(pruned))

\* mutant of sign_merge: the sign is elected on the weighted tensors
sign_merge_weighted_mask(stacked, weights, majority_sign_method, warned) ==
    LET weighted_task_tensors ==
            mul(stacked, reshape_weight_task_tensors(stacked, weights))
        majority_sign_mask ==
            calculate_majority_sign_mask(weighted_task_tensors, majority_sign_method)
    IN  IF majority_sign_mask.kind # "ok" THEN majority_sign_mask
        ELSE Result(disjoint_merge(weighted_task_tensors, majority_sign_mask.value),
                    warned)

\* elect sign on the stacked tensors, weight them, disjoint merge
sign_merge(stacked, weights, majority_sign_method, warned) ==
    LET majority_sign_mask == calculate_majority_sign_mask(stacked, majority_sign_method)
    IN  IF majority_sign_mask.kind # "ok" THEN majority_sign_mask
        ELSE LET weighted_task_tensors ==
                     mul(stacked, reshape_weight_task_tensors(stacked, weights))
             IN  Result(disjoint_merge(weighted_task_tensors, majority_sign_mask.value),
                        warned)

ties(task_tensors, weights, density, majority_sign_method, rnds) ==
    LET pruned == prune_each(task_tensors, density, "magnitude", FALSE, rnds)
    IN  IF FirstRaise(pruned) # "ok" THEN Raise(FirstRaise(pruned))
        ELSE sign_merge(stack(Values(pruned)), weights, majority_sign_method,
                        AnyWarned(pruned))

dare_linear(task_tensors, weights, density, rnds) ==
    LET pruned == prune_each(task_tensors, density, "random", TRUE, rnds)
    IN  IF FirstRaise(pruned) # "ok" THEN Raise(FirstRaise(pruned))
        ELSE Result(weighted_sum(stack(Values(pruned)), weights), AnyWarned(pruned))

dare_ties(task_tensors, weights, density, majority_sign_method, rnds) ==
    LET pruned == prune_each(task_tensors, density, "random", TRUE, rnds)
    IN  IF FirstRaise(pruned) # "ok" THEN Raise(FirstRaise(pruned))
        ELSE sign_merge(stack(Values(pruned)), weights, majority_sign_method,
                        AnyWarned(pruned))

Eps == Rat(1, 1000000)

RSquare(x) == RMul(x, x)

\* torch.mean(task_tensors**2, dim=list(range(1, task_tensors.dim())))
mean_sq(T) ==
    LET n     == T.shape[1]
        inner == Numel(Tail(T.shape))
    IN  Tensor(<<n>>,
               [i \in 1..n |->
                  RDiv(RSumTo([j \in 1..inner |-> RSquare(T.data[(i - 1) * inner + j])],
                              inner),
                       R(inner))])

sce_weight(task_tensors) ==
    LET weights    == mean_sq(task_tensors)
        weight_sum == RSumTo(weights.data, numel(weights))
    IN  IF RLt(RAbs(weight_sum), Eps)
        THEN div(ones_like(weights), Scalar(R(weights.shape[1])))
        ELSE div(weights, Scalar(weight_sum))

\* torch.var(task_tensors, dim=0, unbiased=False)
var_dim0(T) ==
    LET n     == T.shape[1]
        inner == Numel(Tail(T.shape))
        mean  == div(sum_dim0(T), Scalar(R(n)))
    IN  Tensor(Tail(T.shape),
               [j \in 1..inner |->
                  RDiv(RSumTo([i \in 1..n |->
                                 RSquare(RSub(T.data[(i - 1) * inner + j], mean.data[j]))],
                              n),
                       R(n))])

count_nonzero(A) == Cardinality({q \in 1..numel(A) : A.data[q] # R(0)})

\* mutant of sce_k: every position is counted, not those of nonzero variance
sce_k_all_positions(task_tensors, density) ==
    RInt(RMul(R(Numel(Tail(task_tensors.shape))), density))

\* k = int(nonzero * density)
sce_k(task_tensors, density) ==
    RInt(RMul(R(count_nonzero(var_dim0(task_tensors))), density))

\* top_k is the index set torch.topk returned (read only when k > 0), one of
\* topk(|var|, sce_k(task_tensors, density))
sce_mask(task_tensors, density, top_k) ==
    IF RLe(density, R(0)) THEN zeros_like(task_tensors)
    ELSE IF RLe(R(1), density) THEN ones_like(task_tensors)
    ELSE LET var == var_dim0(task_tensors)
             k   == sce_k(task_tensors, density)
         IN  IF k = 0 THEN zeros_like(task_tensors)
             ELSE Tensor(var.shape,
                         [q \in 1..numel(var) |->
                            IF q \in top_k THEN R(1) ELSE R(0)])

\* while tv_weights.dim() < task_tensors.dim(): tv_weights.unsqueeze(-1)
RECURSIVE unsqueeze_to(_, _)
unsqueeze_to(A, r) == IF dim(A) < r THEN unsqueeze_to(unsqueeze_last(A), r) ELSE A

\* task_tensors after the variance mask (the stack itself when density >= 1)
sce_sparsify(task_tensors, density, top_k) ==
    LET stacked == stack(task_tensors)
    IN  IF RLt(density, R(1))
        THEN mul(stacked, unsqueeze0(sce_mask(stacked, density, top_k)))
        ELSE stacked

sce(task_tensors, density, majority_sign_method, top_k) ==
    LET T          == sce_sparsify(task_tensors, density, top_k)
        erase_mask == calculate_majority_sign_mask(T, majority_sign_method)
    IN  IF erase_mask.kind # "ok" THEN erase_mask
        ELSE LET tv_weights     == unsqueeze_to(sce_weight(T), dim(T))
                 erased_weights == mul(tv_weights, to_num(erase_mask.value))
                 merged_tv      == sum_dim0(mul(T, erased_weights))
                 final_tv       == div(merged_tv, clamp_min(sum_dim0(erased_weights), Eps))
             IN  Ok(final_tv)

(***************************************************************************)
(* The inputs the calls are made with.                                     *)
(***************************************************************************)
\* the values of a tensor given to a pruning function: zero, three
\* magnitudes when MaxVal > 1, and a pair of equal magnitude and opposite sign
Vals == {-MaxVal, -1, 0, 1}

\* the values of the task tensors given to the strategies, to the stacked
\* primitives and to random pruning: both signs, zero, and two magnitudes
TaskVals == {-MaxVal, 0, 1}

\* the shapes of L elements: the vector, and the matrices with no side of 1
ShapesOf(L) == {<<L>>} \cup {s \in (2..L) \X (2..L) : s[1] * s[2] = L}

Vec(ints) == Tensor(<<Len(ints)>>, [q \in 1..Len(ints) |-> R(ints[q])])

\* the tensors of at most maxL elements with values in V
TensorsOver(V, maxL) ==
    UNION {{Tensor(s, [q \in 1..L |-> R(d[q])]) : s \in ShapesOf(L), d \in [1..L -> V]} :
           L \in 1..maxL}

\* lists of N task tensors of one shape, N <= MaxTasks
TaskListsOf(N, L) ==
    {[n \in 1..N |-> Tensor(s, [q \in 1..L |-> R(d[n][q])])] :
        s \in ShapesOf(L), d \in [1..N -> [1..L -> TaskVals]]}

\* the two task tensors of the end-to-end examples
ExampleTasks == <<Vec(<<1, 2, -3, 4>>), Vec(<<1, -2, 3, -4>>)>>

ExampleWeights == Tensor(<<2>>, <<Rat(1, 2), Rat(1, 2)>>)

\* the stacked values of the majority sign example
ExampleStack == Tensor(<<3, 2>>, [q \in 1..6 |-> R(<<1, -1, 1, 1, -1, 1>>[q])])

\* the lists of at most MaxTasks task tensors with at most maxE elements in all
TaskListsUpTo(maxE) ==
    UNION {UNION {TaskListsOf(N, L) : L \in 1..(maxE \div N)} : N \in 1..MaxTasks}

TaskLists == TaskListsUpTo(MaxElems) \cup {ExampleTasks}

\* Random pruning draws one bit per element of every task tensor: the dare
\* strategies, and prune, are given the inputs of fewer than MaxElems elements.
DareTaskLists == TaskListsUpTo(MaxElems - 1) \cup {ExampleTasks}

Stacks == {stack(ts) : ts \in TaskLists} \cup {ExampleStack}

\* one tensor of each shape a stack can have
StackShapes == {zeros_like(T) : T \in Stacks}

WeightVals == {R(-1), Rat(1, 2)}

WeightsFor(N) ==
    {Tensor(<<N>>, w) : w \in [1..N -> WeightVals]}
    \cup (IF N = 2 THEN {ExampleWeights} ELSE {})

\* weights as reshape_weight_task_tensors can be given them: the vector of
\* one weight per task, and tensors of rank 2 and 3
WeightTensors ==
    UNION {WeightsFor(N) : N \in 1..MaxTasks}
    \cup {Tensor(<<N, 1>>, w.data) : N \in {2}, w \in WeightsFor(2)}
    \cup {Tensor(<<1, 1, 1>>, w.data) : w \in WeightsFor(1)}

Densities == {Rat(-1, 2), R(0), Rat(1, 2), R(1)}

\* the densities prune is called with
PruneDensities == Densities \cup {Rat(3, 2)}

\* the densities in [0, 1] the pruning functions are called with directly
UnitDensities == {R(0), Rat(1, 4), Rat(1, 2), Rat(3, 4), R(1)}

\* the probabilities random_pruning is called with directly
BernoulliDensities == {R(0), Rat(1, 2), R(1)}

PruneMethods == {"magnitude", "random", "other"}

SignMethods == {"total", "frequency", "other"}

\* the majority_sign_method values of the strategies' interface
StrategySignMethods == {"total", "frequency"}

\* the index sets magnitude pruning can get from torch.topk
MagnitudeTopK(tensor, density) ==
    topk(abs(tensor).data, magnitude_k(tensor, density))

\* the masks torch.bernoulli can draw with probability density
Bernoulli(tensor, density) ==
    {Tensor(tensor.shape, [q \in 1..numel(tensor) |-> R(m[q])]) :
        m \in [1..numel(tensor) ->
                 IF density = R(0) THEN {0} ELSE IF density = R(1) THEN {1} ELSE {0, 1}]}

NoRnd == [top_k |-> {}, mask |-> NoTensor]

\* the choices prune(tensor, density, method) can meet
Rnds(tensor, density, method) ==
    IF RLe(R(1), density) \/ RLt(density, R(0)) THEN {NoRnd}
    ELSE IF method = "magnitude"
         THEN {[top_k |-> I, mask |-> NoTensor] : I \in MagnitudeTopK(tensor, density)}
    ELSE IF method = "random"
         THEN {[top_k |-> {}, mask |-> m] : m \in Bernoulli(tensor, density)}
    ELSE {NoRnd}

\* one choice per task
RndsEach(task_tensors, density, method) ==
    LET N   == Len(task_tensors)
        per == [n \in 1..N |-> Rnds(task_tensors[n], density, method)]
    IN  {r \in [1..N -> UNION {per[n] : n \in 1..N}] : \A n \in 1..N : r[n] \in per[n]}

\* the index sets sce_mask can get from torch.topk
SceTopK(stacked, density) ==
    IF RLt(R(0), density) /\ RLt(density, R(1)) /\ sce_k(stacked, density) > 0
    THEN topk(abs(var_dim0(stacked)).data, sce_k(stacked, density))
    ELSE {{}}

(***************************************************************************)
(* The state machine: one call.                                            *)
(***************************************************************************)
NoArgs == [none |-> TRUE]

Init ==
    /\ op = "none"
    /\ args = NoArgs
    /\ out = Raise("none")
    /\ aux = NoArgs

Idle == op = "none"

Call_reshape_weight_task_tensors ==
    /\ Idle
    /\ \E T \in StackShapes, w \in WeightTensors :
        /\ op' = "reshape_weight_task_tensors"
        /\ args' = [task_tensors |-> T, weights |-> w]
        /\ out' = Ok(reshape_weight_task_tensors(T, w))
        /\ aux' = NoArgs

Call_magnitude_based_pruning ==
    /\ Idle
    /\ \E t \in TensorsOver(Vals, MaxElems), d \in UnitDensities :
        \E I \in MagnitudeTopK(t, d) :
            /\ op' = "magnitude_based_pruning"
            /\ args' = [tensor |-> t, density |-> d]
            /\ out' = Ok(magnitude_based_pruning(t, d, I))
            /\ aux' = [top_k |-> I]

Call_random_pruning ==
    /\ Idle
    /\ \E t \in TensorsOver(TaskVals, MaxElems), d \in BernoulliDensities,
          rescale \in BOOLEAN :
        \E m \in Bernoulli(t, d) :
            /\ op' = "random_pruning"
            /\ args' = [tensor |-> t, density |-> d, rescale |-> rescale]
            /\ out' = Ok(random_pruning(t, d, rescale, m))
            /\ aux' = [mask |-> m]

Call_prune ==
    /\ Idle
    /\ \E t \in TensorsOver(TaskVals, MaxElems - 1), d \in PruneDensities,
          m \in PruneMethods,
          rescale \in BOOLEAN :
        \E rnd \in Rnds(t, d, m) :
            /\ op' = "prune"
            /\ args' = [tensor |-> t, density |-> d, method |-> m, rescale |-> rescale]
            /\ out' = prune(t, d, m, rescale, rnd)
            /\ aux' = rnd

Call_calculate_majority_sign_mask ==
    /\ Idle
    /\ \E T \in Stacks, m \in SignMethods :
        /\ op' = "calculate_majority_sign_mask"
        /\ args' = [tensor |-> T, method |-> m]
        /\ out' = calculate_majority_sign_mask(T, m)
        /\ aux' = NoArgs

Call_disjoint_merge ==
    /\ Idle
    /\ \E T \in Stacks :
        \E M \in {Tensor(T.shape, b) : b \in [1..numel(T) -> BOOLEAN]} :
            /\ op' = "disjoint_merge"
            /\ args' = [task_tensors |-> T, majority_sign_mask |-> M]
            /\ out' = Ok(disjoint_merge(T, M))
            /\ aux' = NoArgs

Call_task_arithmetic ==
    /\ Idle
    /\ \E ts \in TaskLists :
        \E w \in WeightsFor(Len(ts)) :
            /\ op' = "task_arithmetic"
            /\ args' = [task_tensors |-> ts, weights |-> w]
            /\ out' = task_arithmetic(ts, w)
            /\ aux' = NoArgs

Call_magnitude_prune ==
    /\ Idle
    /\ \E ts \in TaskLists, d \in Densities :
        \E rnds \in RndsEach(ts, d, "magnitude") :
        \E w \in WeightsFor(Len(ts)) :
            /\ op' = "magnitude_prune"
            /\ args' = [task_tensors |-> ts, weights |-> w, density |-> d]
            /\ out' = magnitude_prune(ts, w, d, rnds)
            /\ aux' = [rnds |-> rnds,
                       pruned |-> prune_each(ts, d, "magnitude", FALSE, rnds)]

Call_ties ==
    /\ Idle
    /\ \E ts \in TaskLists, d \in Densities :
        \E rnds \in RndsEach(ts, d, "magnitude") :
        \E w \in WeightsFor(Len(ts)), m \in StrategySignMethods :
            /\ op' = "ties"
            /\ args' = [task_tensors |-> ts, weights |-> w, density |-> d,
                        majority_sign_method |-> m]
            /\ out' = ties(ts, w, d, m, rnds)
            /\ aux' = [rnds |-> rnds,
                       pruned |-> prune_each(ts, d, "magnitude", FALSE, rnds)]

Call_dare_linear ==
    /\ Idle
    /\ \E ts \in DareTaskLists, d \in Densities :
        \E rnds \in RndsEach(ts, d, "random") :
        \E w \in WeightsFor(Len(ts)) :
            /\ op' = "dare_linear"
            /\ args' = [task_tensors |-> ts, weights |-> w, density |-> d]
            /\ out' = dare_linear(ts, w, d, rnds)
            /\ aux' = [rnds |-> rnds,
                       pruned |-> prune_each(ts, d, "random", TRUE, rnds)]

Call_dare_ties ==
    /\ Idle
    /\ \E ts \in DareTaskLists, d \in Densities :
        \E rnds \in RndsEach(ts, d, "random") :
        \E w \in WeightsFor(Len(ts)), m \in StrategySignMethods :
            /\ op' = "dare_ties"
            /\ args' = [task_tensors |-> ts, weights |-> w, density |-> d,
                        majority_sign_method |-> m]
            /\ out' = dare_ties(ts, w, d, m, rnds)
            /\ aux' = [rnds |-> rnds,
                       pruned |-> prune_each(ts, d, "random", TRUE, rnds)]

Call_sce_weight ==
    /\ Idle
    /\ \E T \in Stacks :
        /\ op' = "sce_weight"
        /\ args' = [task_tensors |-> T]
        /\ out' = Ok(sce_weight(T))
        /\ aux' = NoArgs

Call_sce_mask ==
    /\ Idle
    /\ \E T \in Stacks, d \in Densities \cup UnitDensities :
        \E I \in SceTopK(T, d) :
            /\ op' = "sce_mask"
            /\ args' = [task_tensors |-> T, density |-> d]
            /\ out' = Ok(sce_mask(T, d, I))
            /\ aux' = [top_k |-> I]

Call_sce ==
    /\ Idle
    /\ \E ts \in TaskLists, d \in Densities, m \in StrategySignMethods :
        \E I \in SceTopK(stack(ts), d) :
            /\ op' = "sce"
            /\ args' = [task_tensors |-> ts, density |-> d, majority_sign_method |-> m]
            /\ out' = sce(ts, d, m, I)
            /\ aux' = [top_k |-> I]

Next ==
    \/ Call_reshape_weight_task_tensors
    \/ Call_magnitude_based_pruning
    \/ Call_random_pruning
    \/ Call_prune
    \/ Call_calculate_majority_sign_mask
    \/ Call_disjoint_merge
    \/ Call_task_arithmetic
    \/ Call_magnitude_prune
    \/ Call_ties
    \/ Call_dare_linear
    \/ Call_dare_ties
    \/ Call_sce_weight
    \/ Call_sce_mask
    \/ Call_sce

Spec == Init /\ [][Next]_vars

(***************************************************************************)
(* The claims.                                                             *)
(***************************************************************************)
Strictly01(d) == RLt(R(0), d) /\ RLt(d, R(1))

Positions(t) == 1..Len(t.data)

NonZero(t) == {q \in Positions(t) : t.data[q] # R(0)}

Min(a, b) == IF a <= b THEN a ELSE b

\* the pruned tensor the claim C1 expects of a mask: t[i]/d where the mask
\* keeps, 0 where it drops
C1_Rescaled(t, d, mask) ==
    [q \in Positions(t) |->
       IF mask.data[q] = R(1) THEN RDiv(t.data[q], d) ELSE R(0)]

\* C1 (as claimed): with 0 < density < 1 and rescale=true, random_pruning
\* returns t[i]/density at every kept position and 0 at every dropped one, for
\* every Bernoulli mask; so do the pruned intermediates of dare_linear and
\* dare_ties.
C1_RescaleApplied ==
    /\ (op = "random_pruning" /\ args.rescale /\ Strictly01(args.density))
          => out.value.data = C1_Rescaled(args.tensor, args.density, aux.mask)
    /\ (op \in {"dare_linear", "dare_ties"} /\ Strictly01(args.density))
          => \A n \in 1..Len(args.task_tensors) :
                aux.pruned[n].value.data =
                    C1_Rescaled(args.task_tensors[n], args.density, aux.rnds[n].mask)

Strategies ==
    {"task_arithmetic", "magnitude_prune", "ties", "dare_linear", "dare_ties", "sce"}

DensityStrategies == Strategies \ {"task_arithmetic"}

\* C2 (as claimed): a strategy call that does not fail, on task tensors of
\* one shape S and a density in [0, 1], returns a tensor of shape exactly S.
C2_MergedShapeIsS ==
    (/\ op \in Strategies
     /\ out.kind = "ok"
     /\ op \in DensityStrategies =>
            (RLe(R(0), args.density) /\ RLe(args.density, R(1))))
        => out.value.shape = args.task_tensors[1].shape

\* C3 (as claimed): prune (with any method name) and every strategy that
\* takes a density fail with an invalid-argument error, and return no tensor,
\* when density < 0.
C3_NegativeDensityFails ==
    (op \in DensityStrategies \cup {"prune"} /\ RLt(args.density, R(0)))
        => (out.kind = "ValueError" /\ out.value = NoTensor)

\* floor(density * element_count)
C4_K(t, d) == RInt(RMul(d, R(Len(t.data))))

\* the parts of C4 that do not count the nonzero elements: the shape is
\* kept, an element is kept as it was or zeroed, and no zeroed element is
\* larger in absolute value than an element left nonzero
C4_Shape ==
    LET t == args.tensor
        r == out.value
    IN  /\ out.kind = "ok"
        /\ r.shape = t.shape
        /\ \A q \in Positions(t) : r.data[q] \in {t.data[q], R(0)}
        /\ \A i \in NonZero(r) : \A j \in Positions(t) \ NonZero(r) :
              RLe(RAbs(t.data[j]), RAbs(t.data[i]))

\* C4 (as claimed): for 0 < density < 1, magnitude_based_pruning returns a
\* tensor of t's shape with exactly floor(density * element_count) nonzero
\* elements, each equal to t's, none smaller in absolute value than a zeroed
\* one.
C4_ExactlyKNonzero ==
    (op = "magnitude_based_pruning" /\ Strictly01(args.density))
        => /\ C4_Shape
           /\ Cardinality(NonZero(out.value)) = C4_K(args.tensor, args.density)

\* C4 (amended): for 0 < density < 1, magnitude_based_pruning returns a
\* tensor of t's shape whose number of nonzero elements is the smaller of
\* floor(density * element_count) and the number of nonzero elements of t;
\* each nonzero element equals t's, and none is smaller in absolute value
\* than a zeroed one.
C4_AtMostKNonzero ==
    (op = "magnitude_based_pruning" /\ Strictly01(args.density))
        => /\ C4_Shape
           /\ Cardinality(NonZero(out.value)) =
                 Min(C4_K(args.tensor, args.density), Cardinality(NonZero(args.tensor)))

\* C4's case: a tensor with a zero among the floor(density * element_count)
\* elements kept, and a nonzero element pruned
C4_Witness ==
    /\ op = "magnitude_based_pruning"
    /\ Strictly01(args.density)
    /\ Cardinality(NonZero(out.value)) < C4_K(args.tensor, args.density)
    /\ args.tensor.data = <<R(0), R(-MaxVal), R(0), R(0)>>
    /\ out.value.data = args.tensor.data

\* C5: for every density >= 1 and every method name, known or not, prune
\* warns and returns the tensor unchanged, and raises nothing.
C5_DensityOneIsNoOp ==
    (op = "prune" /\ RLe(R(1), args.density))
        => out = [kind |-> "ok", value |-> args.tensor, warned |-> TRUE]

\* C5's case: density > 1 with a method name that is neither magnitude nor
\* random
C5_Witness ==
    /\ op = "prune"
    /\ args.density = Rat(3, 2)
    /\ args.method = "other"
    /\ NonZero(args.tensor) # {}
    /\ out.warned
    /\ out.value = args.tensor

SignOf(x) == IF x.n > 0 THEN 1 ELSE IF x.n < 0 THEN -1 ELSE 0

\* the majority sign of a column of values: +1 when the sum of the values
\* (total) or of their signs (frequency) is >= 0, -1 otherwise
MajoritySign(col, method) ==
    LET n == Len(col)
    IN  IF method = "total"
        THEN (IF RSumTo(col, n).n >= 0 THEN 1 ELSE -1)
        ELSE (IF SumTo([i \in 1..n |-> SignOf(col[i])], n) >= 0 THEN 1 ELSE -1)

\* the values of the tasks at position p of a stacked tensor
Column(T, p) ==
    [i \in 1..T.shape[1] |-> T.data[(i - 1) * Numel(Tail(T.shape)) + p]]

\* C6: the mask has the stacked shape; entry [n, p] is true exactly when the
\* sign of T[n, p] (+1, -1, 0) is the majority sign at p, so never at an exact
\* zero; the example of the spec gives [[T,F],[T,T],[F,T]]; another method
\* name is a fatal error.
C6_MajoritySignMask ==
    op = "calculate_majority_sign_mask" =>
        LET T     == args.tensor
            inner == Numel(Tail(T.shape))
        IN  IF args.method \in {"total", "frequency"}
            THEN /\ out.kind = "ok"
                 /\ out.value.shape = T.shape
                 /\ \A i \in 1..T.shape[1] : \A p \in 1..inner :
                       LET q == (i - 1) * inner + p
                       IN  /\ out.value.data[q] =
                                (SignOf(T.data[q]) = MajoritySign(Column(T, p), args.method))
                           /\ T.data[q] = R(0) => ~out.value.data[q]
                 /\ (T = ExampleStack /\ args.method = "total")
                       => out.value.data = <<TRUE, FALSE, TRUE, TRUE, FALSE, TRUE>>
            ELSE out.kind = "RuntimeError"

\* C6's case: the example of the spec
C6_Witness ==
    /\ op = "calculate_majority_sign_mask"
    /\ args.tensor = ExampleStack
    /\ args.method = "total"
    /\ out.value.data = <<TRUE, FALSE, TRUE, TRUE, FALSE, TRUE>>

\* C7: at position p the result is the sum of W[n, p] over the tasks the mask
\* marks, divided by max(1, their number): the mean across tasks where the
\* mask is true for all, exactly 0 where it is false for all.
C7_DisjointMerge ==
    op = "disjoint_merge" =>
        LET W     == args.task_tensors
            M     == args.majority_sign_mask
            n     == W.shape[1]
            inner == Numel(Tail(W.shape))
            marked(p) == {i \in 1..n : Column(M, p)[i]}
            gated(p)  == [i \in 1..n |-> IF Column(M, p)[i] THEN Column(W, p)[i] ELSE R(0)]
        IN  /\ out.kind = "ok"
            /\ out.value.shape = Tail(W.shape)
            /\ \A p \in 1..inner :
                  /\ out.value.data[p] =
                        RDiv(RSumTo(gated(p), n), R(Max(1, Cardinality(marked(p)))))
                  /\ marked(p) = 1..n
                        => out.value.data[p] = RDiv(RSumTo(Column(W, p), n), R(n))
                  /\ marked(p) = {} => out.value.data[p] = R(0)

\* C7's case: two tasks, the mask false for both at one position and true
\* for exactly one at another, where the result is that task's value
C7_Witness ==
    /\ op = "disjoint_merge"
    /\ args.task_tensors.shape = <<2, 2>>
    /\ args.task_tensors.data = <<R(1), R(-MaxVal), R(1), R(1)>>
    /\ args.majority_sign_mask.data = <<FALSE, TRUE, FALSE, FALSE>>
    /\ out.value.data = <<R(0), R(-MaxVal)>>

\* P is a magnitude pruning of t at density d: t on floor(d * numel) positions
\* of largest absolute value, 0 elsewhere (t itself when d >= 1)
IsMagnitudePruning(P, t, d) ==
    IF RLe(R(1), d) THEN P = t
    ELSE /\ P.shape = t.shape
         /\ \E I \in SUBSET Positions(t) :
               /\ Cardinality(I) = C4_K(t, d)
               /\ \A i \in I : \A j \in Positions(t) \ I :
                     RLe(RAbs(t.data[j]), RAbs(t.data[i]))
               /\ \A q \in Positions(t) :
                     P.data[q] = IF q \in I THEN t.data[q] ELSE R(0)

\* C8: ties is the disjoint merge of the weighted pruned tensors under the
\* sign mask of the pruned, unweighted tensors: at position p the result is
\* the sum of w[n] * P[n, p] over the tasks whose pruned value has the
\* majority sign of the pruned values, divided by max(1, their number).  For
\* the example of the spec the pruned tensors are [0,0,-3,4] and [0,0,3,-4]
\* and the result is [0,0,1.5,2].
C8_Ties ==
    (op = "ties" /\ out.kind = "ok") =>
        LET ts == args.task_tensors
            N  == Len(ts)
            w  == args.weights.data
            m  == args.majority_sign_method
            P  == [n \in 1..N |-> aux.pruned[n].value]
            col(p)    == [n \in 1..N |-> P[n].data[p]]
            agree(p)  == {n \in 1..N : SignOf(P[n].data[p]) = MajoritySign(col(p), m)}
            gated(p)  == [n \in 1..N |->
                            IF n \in agree(p) THEN RMul(w[n], P[n].data[p]) ELSE R(0)]
        IN  /\ \A n \in 1..N : IsMagnitudePruning(P[n], ts[n], args.density)
            /\ out.value.shape = ts[1].shape
            /\ \A p \in Positions(ts[1]) :
                  out.value.data[p] =
                      RDiv(RSumTo(gated(p), N), R(Max(1, Cardinality(agree(p)))))
            /\ (/\ ts = ExampleTasks
                /\ args.weights = ExampleWeights
                /\ args.density = Rat(1, 2)
                /\ m = "total")
                  => /\ P = <<Vec(<<0, 0, -3, 4>>), Vec(<<0, 0, 3, -4>>)>>
                     /\ out.value.data = <<R(0), R(0), Rat(3, 2), R(2)>>

\* C8's case: the example of the spec
C8_Witness ==
    /\ op = "ties"
    /\ args.task_tensors = ExampleTasks
    /\ args.weights = ExampleWeights
    /\ args.density = Rat(1, 2)
    /\ args.majority_sign_method = "total"
    /\ out.value.data = <<R(0), R(0), Rat(3, 2), R(2)>>

\* N^2 times the population variance of a column: N * sum(x^2) - sum(x)^2
ScaledVariance(col) ==
    LET n == Len(col)
    IN  RSub(RMul(R(n), RSumTo([i \in 1..n |-> RMul(col[i], col[i])], n)),
             RMul(RSumTo(col, n), RSumTo(col, n)))

AllEntries(t, v) == \A q \in Positions(t) : t.data[q] = v

C10_RankChecked ==
    op = "reshape_weight_task_tensors" =>
        LET T == args.task_tensors
            w == args.weights
        IN  IF dim(w) > dim(T)
            THEN out.kind = "ValueError"
            ELSE /\ out.kind = "ok"
                 /\ out.value.data = w.data
                 /\ Len(out.value.shape) = dim(T)
                 /\ \A i \in 1..dim(T) :
                       out.value.shape[i] = IF i <= dim(w) THEN w.shape[i] ELSE 1

====
